---- MODULE Spec2Model ----
(***************************************************************************)
(* Model of strokes.py: the tile sequencer (gen_images), the page packer   *)
(* (Page, Header, gen_svgs) and the request handler (draw, gen_strokes).   *)
(*                                                                         *)
(* One request is followed from the moment gen_strokes receives the form   *)
(* to the moment it returns a response.  The lazy generator gen_images is  *)
(* a suspended control point (gen) that the packer resumes once per grid   *)
(* cell.                                                                   *)
(***************************************************************************)
EXTENDS Integers, Sequences, FiniteSets, TLC

VARIABLES
    has_chars,      \* 'chars' in request.form
    chars,          \* request.form['chars'], a sequence of characters
    size,           \* int(request.form.get('size') or 10)
    num_repeats,    \* int(request.form.get('nr') or 3)
    action,         \* request.form.get('action') or 'preview'; "unread" before gen_strokes reads it
    pc,             \* control point of the request
    gen,            \* suspended control point of the gen_images generator
    out,            \* history: the tiles gen_images has yielded so far
    pages,          \* gen_svgs' local list of Page objects
    page_drawn,     \* gen_svgs' local page counter
    i,              \* loop variable of gen_positions on the current page
    resp            \* the Response of gen_strokes (status 0: none yet)

vars == <<has_chars, chars, size, num_repeats, action, pc, gen, out, pages,
          page_drawn, i, resp>>

----------------------------------------------------------------------------
(* Bounds of the exploration *)

\* inputs of at most ShortLen characters range over every character
ShortLen == 3
\* longer inputs, up to MaxLen characters, repeat one character of LongChars
\* and end with any character of LongChars; they are explored with the
\* repeat counts 0 and 1
MaxLen == 5
\* largest repeat count explored
MaxRepeats == 2
\* largest recall batch (len(chunk) * num_repeats * 2) explored on the
\* inputs of at most ShortLen characters
MaxRecall == 6
\* gen_svgs never stops on a grid without cells; pages without a tile are
\* explored up to this number
MaxEmptyPages == 3

----------------------------------------------------------------------------
(* Program constants *)

PAGE_SIZE == <<200, 300>>
CHUNK_SIZE == 4
LINE_THICK == 30
\* Tile.__init__: leftline_width = topline_width = 10
LINE_THIN == 10
\* the stop_at literal of the whole-character and in-context tiles
STOP_ALL == 99
\* Header.observe_char: len(self.header) > 75
HEADER_WRAP == 75
\* Tile.__init__: x = y = size = None
None == -1

----------------------------------------------------------------------------
(* The datasets graphics.txt and dictionary.txt.  A stroke list is the     *)
(* sequence of its path descriptors (here the stroke's index); the         *)
(* pronunciation is represented by the length of its string, which is all  *)
(* Header reads of it.  "u" is in neither file, "n" has strokes but no     *)
(* pinyin (load_dictionary skips entries whose pinyin list is empty).      *)

STROKES_DB ==
    ("a" :> <<0>>) @@ ("b" :> <<0, 1>>) @@ ("c" :> <<0>>) @@ ("n" :> <<0>>)

PINYIN_DB ==
    ("a" :> 30) @@ ("b" :> 80) @@ ("c" :> 2)

Chars == {"a", "b", "c", "n", "u"}
LongChars == {"a", "b"}
TileSizes == {-100, 0, 75, 100, 150, 175, 250}
Actions == {"generate", "preview_small", "preview_large", "preview"}

----------------------------------------------------------------------------
(* Python arithmetic *)

\* a // b for a >= 0 and b # 0 (floor division, also for a negative b)
FloorDiv(a, b) ==
    IF b > 0 THEN a \div b ELSE -((a + (-b) - 1) \div (-b))

\* a % b for a >= 0 and b # 0 (the result has the sign of b)
PyMod(a, b) == a - b * FloorDiv(a, b)

Min(a, b) == IF a < b THEN a ELSE b

\* number of occurrences of c in the list s
Count(s, c) == Cardinality({k \in 1..Len(s) : s[k] = c})

----------------------------------------------------------------------------
(* Tile *)

\* Tile.__init__; gid names the list object passed as chunk and occ the
\* position in the input of the character occurrence that produced the tile
\* (0 for a recall tile, whose character comes out of the shuffled list)
Tile(C, chunk, gid, occ, strokes, img_num, skip_strokes, stop_at, add_pinyin, skip_in_header) ==
    [C |-> C, chunk |-> chunk, gid |-> gid, occ |-> occ,
     strokes |-> strokes, img_num |-> img_num,
     skip_strokes |-> skip_strokes, stop_at |-> stop_at,
     add_pinyin |-> add_pinyin, skip_in_header |-> skip_in_header,
     x |-> None, y |-> None, size |-> None,
     leftline_width |-> LINE_THIN, topline_width |-> LINE_THIN]

set_dimensions(tile, x, y, sz) ==
    [tile EXCEPT !.x = x, !.y = y, !.size = sz]

\* Python truth value of a number or None
Truthy(v) == v # None /\ v # 0

\* line_size = (20 if n - 1 < self.img_num else 10)
line_size(tile, n) == IF n - 1 < tile.img_num THEN 20 ELSE 10

\* the (n, stroke-width) pairs Tile.render writes, in order
RECURSIVE RenderPaths(_, _)
RenderPaths(tile, n) ==
    IF n >= Len(tile.strokes) THEN <<>>
    ELSE IF n < tile.skip_strokes \/ n >= tile.stop_at
         THEN RenderPaths(tile, n + 1)
         ELSE <<(<<n, line_size(tile, n)>>)>> \o RenderPaths(tile, n + 1)

\* render with the test made on x, y and size
render_checks_x(tile) ==
    IF ~(Truthy(tile.x) /\ Truthy(tile.y) /\ Truthy(tile.size))
    THEN [exc |-> "RuntimeError", arg |-> "Call set_dimensions first!",
          svg |-> <<>>]
    ELSE IF tile.add_pinyin /\ tile.C \notin DOMAIN PINYIN_DB
    THEN [exc |-> "KeyError", arg |-> tile.C, svg |-> <<>>]
    ELSE [exc |-> "none", arg |-> "",
          svg |-> [x |-> tile.x, y |-> tile.y, size |-> tile.size,
                   text |-> tile.add_pinyin,
                   leftline_width |-> tile.leftline_width,
                   topline_width |-> tile.topline_width,
                   paths |-> RenderPaths(tile, 0)]]

\* Tile.render: exc is the exception it raises ("none" when it returns)
render(tile) ==
    IF ~(Truthy(tile.size) /\ Truthy(tile.y) /\ Truthy(tile.size))
    THEN [exc |-> "RuntimeError", arg |-> "Call set_dimensions first!",
          svg |-> <<>>]
    ELSE IF tile.add_pinyin /\ tile.C \notin DOMAIN PINYIN_DB
    THEN [exc |-> "KeyError", arg |-> tile.C, svg |-> <<>>]
    ELSE [exc |-> "none", arg |-> "",
          svg |-> [x |-> tile.x, y |-> tile.y, size |-> tile.size,
                   text |-> tile.add_pinyin,
                   leftline_width |-> tile.leftline_width,
                   topline_width |-> tile.topline_width,
                   paths |-> RenderPaths(tile, 0)]]

----------------------------------------------------------------------------
(* gen_images *)

\* ChunkSize without the special case of no repetitions
ChunkSizeFixed(R) == CHUNK_SIZE

\* chunk_size of gen_images
ChunkSize(R) == IF R = 0 THEN 1 ELSE CHUNK_SIZE

\* Repeats with the recall batch built as chunk * num_repeats
RepeatsOnce(chunk, R) ==
    [c \in {chunk[k] : k \in 1..Len(chunk)} |->
        IF R > 0 THEN Count(chunk, c) * R ELSE 0]

\* the list chunk * num_repeats * 2 as a multiset: character -> number of
\* entries (a list times a non-positive number is empty)
Repeats(chunk, R) ==
    [c \in {chunk[k] : k \in 1..Len(chunk)} |->
        IF R > 0 THEN Count(chunk, c) * R * 2 ELSE 0]

BagEmpty(bag) == \A c \in DOMAIN bag : bag[c] = 0

\* AddText on every repetition of the first stroke
AddTextAnyRep(n, j) == n = 0

\* add_text = n == 0 and j == 0
AddText(n, j) == n = 0 /\ j = 0

\* range_len with the last stroke left out
range_len_short(strokes) == Len(strokes) - 1

\* range(len(strokes)): the number of turns of the stroke loop
range_len(strokes) == Len(strokes)

\* the generator before its first resumption
GenStart ==
    [loc |-> "chunk", it |-> 0, chunk |-> <<>>, gid |-> 0, ci |-> 1,
     n |-> 0, j |-> 0, repeats |-> <<>>, err |-> ""]

\* Runs the generator from control point g up to its next yield, its end or
\* the exception it raises.  The result is a control point whose loc is
\*   "single" | "iso" | "whole" | "ctx" : about to yield that tile,
\*   "recall"    : about to yield one of the remaining shuffled entries,
\*   "exhausted" : next(iterable) in grouper raised StopIteration,
\*   "keyerror"  : STROKES_DB[C] raised KeyError (err is C).
RECURSIVE Advance(_, _, _)
Advance(g, cs, R) ==
    CASE g.loc = "chunk" ->
            \* for chunk_iter in grouper(iter(input_characters), chunk_size)
            IF g.it >= Len(cs) THEN [g EXCEPT !.loc = "exhausted"]
            ELSE LET last == Min(g.it + ChunkSize(R), Len(cs))
                 IN  Advance([g EXCEPT !.loc = "char",
                                       !.chunk = SubSeq(cs, g.it + 1, last),
                                       !.it = last, !.gid = g.gid + 1,
                                       !.ci = 1], cs, R)
      [] g.loc = "char" ->
            \* for C in chunk: strokes = STROKES_DB[C]
            IF g.ci > Len(g.chunk)
            THEN Advance([g EXCEPT !.loc = "recall",
                                   !.repeats = Repeats(g.chunk, R)], cs, R)
            ELSE IF g.chunk[g.ci] \notin DOMAIN STROKES_DB
            THEN [g EXCEPT !.loc = "keyerror", !.err = g.chunk[g.ci]]
            ELSE Advance([g EXCEPT !.loc = "stroke", !.n = 0], cs, R)
      [] g.loc = "stroke" ->
            \* for n in range(len(strokes))
            IF g.n >= range_len(STROKES_DB[g.chunk[g.ci]])
            THEN Advance([g EXCEPT !.loc = "char", !.ci = g.ci + 1,
                                   !.n = 0], cs, R)
            ELSE IF R = 0 THEN [g EXCEPT !.loc = "single"]
            ELSE Advance([g EXCEPT !.loc = "iso", !.j = 0], cs, R)
      [] g.loc = "iso" ->
            \* for j in range(num_repeats)
            IF g.j < R THEN g
            ELSE Advance([g EXCEPT !.loc = "whole", !.j = 0], cs, R)
      [] g.loc = "whole" ->
            IF g.j < R THEN g
            ELSE Advance([g EXCEPT !.loc = "ctx", !.j = 0], cs, R)
      [] g.loc = "ctx" ->
            IF g.j < R THEN g
            ELSE Advance([g EXCEPT !.loc = "stroke", !.n = g.n + 1,
                                   !.j = 0], cs, R)
      [] g.loc = "recall" ->
            \* for C in repeats
            IF BagEmpty(g.repeats)
            THEN Advance([g EXCEPT !.loc = "chunk", !.repeats = <<>>], cs, R)
            ELSE g
      [] OTHER -> g

\* position in the input of the character the generator is working on
Occ(g) == g.it - Len(g.chunk) + g.ci

\* PhaseTile with the isolated-stroke tile stopping one stroke late
PhaseTileLongIso(g) ==
    LET C == g.chunk[g.ci]
        strokes == STROKES_DB[C]
        n == g.n
    IN  CASE g.loc = "single" ->
                Tile(C, g.chunk, g.gid, Occ(g), strokes, n, 0, STOP_ALL,
                     FALSE, FALSE)
          [] g.loc = "iso" ->
                Tile(C, g.chunk, g.gid, Occ(g), strokes, n, 0, n + 2,
                     AddText(n, g.j), FALSE)
          [] g.loc = "whole" ->
                Tile(C, g.chunk, g.gid, Occ(g), strokes, n, 0, STOP_ALL,
                     FALSE, FALSE)
          [] g.loc = "ctx" ->
                Tile(C, g.chunk, g.gid, Occ(g), strokes, n, n + 1, STOP_ALL,
                     FALSE, FALSE)

\* PhaseTile with the in-context tile starting at the stroke in focus
PhaseTileCtxFromN(g) ==
    LET C == g.chunk[g.ci]
        strokes == STROKES_DB[C]
        n == g.n
    IN  CASE g.loc = "single" ->
                Tile(C, g.chunk, g.gid, Occ(g), strokes, n, 0, STOP_ALL,
                     FALSE, FALSE)
          [] g.loc = "iso" ->
                Tile(C, g.chunk, g.gid, Occ(g), strokes, n, 0, n + 1,
                     AddText(n, g.j), FALSE)
          [] g.loc = "whole" ->
                Tile(C, g.chunk, g.gid, Occ(g), strokes, n, 0, STOP_ALL,
                     FALSE, FALSE)
          [] g.loc = "ctx" ->
                Tile(C, g.chunk, g.gid, Occ(g), strokes, n, n, STOP_ALL,
                     FALSE, FALSE)

\* the tile yielded at the phase control point g
PhaseTile(g) ==
    LET C == g.chunk[g.ci]
        strokes == STROKES_DB[C]
        n == g.n
    IN  CASE g.loc = "single" ->
                Tile(C, g.chunk, g.gid, Occ(g), strokes, n, 0, STOP_ALL,
                     FALSE, FALSE)
          [] g.loc = "iso" ->
                Tile(C, g.chunk, g.gid, Occ(g), strokes, n, 0, n + 1,
                     AddText(n, g.j), FALSE)
          [] g.loc = "whole" ->
                Tile(C, g.chunk, g.gid, Occ(g), strokes, n, 0, STOP_ALL,
                     FALSE, FALSE)
          [] g.loc = "ctx" ->
                Tile(C, g.chunk, g.gid, Occ(g), strokes, n, n + 1, STOP_ALL,
                     FALSE, FALSE)

\* yield Tile(C, chunk, [], 0, 0, 0, skip_in_header=True): add_pinyin keeps
\* its default value True
RecallTile(g, C) ==
    Tile(C, g.chunk, g.gid, 0, <<>>, 0, 0, 0, TRUE, TRUE)

\* The outcomes of next(gen_images_iter) at the suspended control point g:
\* a set, because random.shuffle may have put any remaining entry next.
\* Each outcome gives the tile and the control point the generator is
\* suspended at afterwards.
GenNext(g, cs, R) ==
    LET a == Advance(g, cs, R)
    IN  CASE a.loc = "single" ->
                {[kind |-> "tile", tile |-> PhaseTile(a),
                  g |-> [a EXCEPT !.loc = "stroke", !.n = a.n + 1]]}
          [] a.loc \in {"iso", "whole", "ctx"} ->
                {[kind |-> "tile", tile |-> PhaseTile(a),
                  g |-> [a EXCEPT !.j = a.j + 1]]}
          [] a.loc = "recall" ->
                {[kind |-> "tile", tile |-> RecallTile(a, C),
                  g |-> [a EXCEPT !.repeats[C] = @ - 1]] :
                    C \in {c \in DOMAIN a.repeats : a.repeats[c] > 0}}
          [] a.loc = "exhausted" ->
                {[kind |-> "exhausted", tile |-> <<>>, g |-> a]}
          [] a.loc = "keyerror" ->
                {[kind |-> "KeyError", tile |-> <<>>, g |-> a]}

----------------------------------------------------------------------------
(* Header.  The header string is kept as the sequence of the pieces that   *)
(* were appended to it; its length is the sum of their lengths.            *)

SEP == <<"sep", "">>
TSPAN == <<"tspan", "">>

\* length of ', ', of '</tspan><tspan x="0" dy="1.2em">' and of
\* '%s (%s)' % (C, PINYIN_DB[C])
PieceLen(piece) ==
    CASE piece[1] = "sep" -> 2
      [] piece[1] = "tspan" -> 32
      [] piece[1] = "entry" -> 1 + 2 + PINYIN_DB[piece[2]] + 1

RECURSIVE HeaderLen(_)
HeaderLen(header) ==
    IF header = <<>> THEN 0
    ELSE PieceLen(Head(header)) + HeaderLen(Tail(header))

\* '<tspan' in self.header[1:]: the only piece that contains '<tspan' is the
\* line break, and it contains it 8 characters after its own start
HasTspan(header) == \E k \in 1..Len(header) : header[k] = TSPAN

\* Header.__init__
NewHeader == [header |-> <<>>, chars_drawn |-> <<>>]

\* observe_char without the test for an earlier line break
observe_char_rewrap(hdr, C) ==
    IF \E k \in 1..Len(hdr.chars_drawn) : hdr.chars_drawn[k] = C
    THEN [hdr |-> hdr, exc |-> "none", arg |-> ""]
    ELSE LET drawn == Append(hdr.chars_drawn, C)
             h1 == IF hdr.header # <<>> THEN Append(hdr.header, SEP)
                   ELSE hdr.header
             h2 == IF HeaderLen(h1) > HEADER_WRAP
                   THEN Append(h1, TSPAN) ELSE h1
         IN  IF C \notin DOMAIN PINYIN_DB
             THEN [hdr |-> [header |-> h2, chars_drawn |-> drawn],
                   exc |-> "KeyError", arg |-> C]
             ELSE [hdr |-> [header |-> Append(h2, <<"entry", C>>),
                            chars_drawn |-> drawn],
                   exc |-> "none", arg |-> ""]

\* Header.observe_char; exc is "KeyError" when PINYIN_DB[C] raises, after
\* chars_drawn and the separator were already appended
observe_char(hdr, C) ==
    IF \E k \in 1..Len(hdr.chars_drawn) : hdr.chars_drawn[k] = C
    THEN [hdr |-> hdr, exc |-> "none", arg |-> ""]
    ELSE LET drawn == Append(hdr.chars_drawn, C)
             h1 == IF hdr.header # <<>> THEN Append(hdr.header, SEP)
                   ELSE hdr.header
             h2 == IF HeaderLen(h1) > HEADER_WRAP /\ ~HasTspan(h1)
                   THEN Append(h1, TSPAN) ELSE h1
         IN  IF C \notin DOMAIN PINYIN_DB
             THEN [hdr |-> [header |-> h2, chars_drawn |-> drawn],
                   exc |-> "KeyError", arg |-> C]
             ELSE [hdr |-> [header |-> Append(h2, <<"entry", C>>),
                            chars_drawn |-> drawn],
                   exc |-> "none", arg |-> ""]

\* Header.get_text: '%d: %s' % (page_drawn, self.header)
get_text(hdr, n) == <<n, hdr.header>>

----------------------------------------------------------------------------
(* Page *)

\* Page.__init__ followed by the first write of Page.prepare
NewPageObject(n) ==
    [page_drawn |-> n, tiles_by_pos |-> <<>>, hdr |-> NewHeader,
     f_tiles |-> <<>>, f_text |-> <<>>, closed |-> FALSE]

num_per_row(sz) == FloorDiv(PAGE_SIZE[1], sz)
num_rows(sz) == FloorDiv(PAGE_SIZE[2], sz)

\* range(num_per_row * (num_rows - 1))
RangeLimit(sz) == num_per_row(sz) * (num_rows(sz) - 1)

\* PageIsFull with a margin of one row less
PageIsFullLate(sz, idx) == FloorDiv(idx, num_per_row(sz)) + 2 > num_rows(sz)

\* if ((i // num_per_row) + 3) > num_rows: break
PageIsFull(sz, idx) == FloorDiv(idx, num_per_row(sz)) + 3 > num_rows(sz)

\* gen_positions yields a position for loop index idx
HasPosition(sz, idx) == idx < RangeLimit(sz) /\ ~PageIsFull(sz, idx)

\* Position filling the page column after column
PositionColumnMajor(sz, idx) ==
    <<FloorDiv(idx, num_per_row(sz)), PyMod(idx, num_per_row(sz))>>

\* Position with the row computed from the number of rows
PositionWrongDivisor(sz, idx) ==
    <<PyMod(idx, num_per_row(sz)), FloorDiv(idx, num_rows(sz))>>

\* the pair (row_num, col_num) gen_positions yields for loop index idx:
\* row_num counts the cells along a row, col_num counts the rows
Position(sz, idx) ==
    <<PyMod(idx, num_per_row(sz)), FloorDiv(idx, num_per_row(sz))>>

\* x = row_num * self.tile_size
CellX(row_num, sz) == row_num * sz
\* CellY without the row kept free at the top of the page
CellYFromTop(col_num, sz) == col_num * sz

\* y = (col_num + 1) * self.tile_size
CellY(col_num, sz) == (col_num + 1) * sz

\* tile.chunk != other.chunk: Python compares the two lists by value
ChunkDiffers(other, tile) == other.chunk # tile.chunk

\* Page.maybe_draw_border; exc is "KeyError" when the neighbour's cell is
\* missing from tiles_by_pos
maybe_draw_border(tiles_by_pos, tile, row_num, col_num) ==
    LET left == <<row_num - 1, col_num>>
        top == <<row_num, col_num - 1>>
        t1 == IF row_num > 0 /\ left \in DOMAIN tiles_by_pos
                 /\ ChunkDiffers(tiles_by_pos[left], tile)
              THEN [tile EXCEPT !.leftline_width = LINE_THICK] ELSE tile
        t2 == IF col_num > 0 /\ top \in DOMAIN tiles_by_pos
                 /\ ChunkDiffers(tiles_by_pos[top], tile)
              THEN [t1 EXCEPT !.topline_width = LINE_THICK] ELSE t1
    IN  IF row_num > 0 /\ left \notin DOMAIN tiles_by_pos
        THEN [tile |-> tile, exc |-> "KeyError", arg |-> ToString(col_num)]
        ELSE IF col_num > 0 /\ top \notin DOMAIN tiles_by_pos
        THEN [tile |-> t1, exc |-> "KeyError", arg |-> ToString(col_num - 1)]
        ELSE [tile |-> t2, exc |-> "none", arg |-> ""]

\* the body of the loop of Page.write_tiles for loop index idx and the tile
\* next(self.gen_images_iter) returned
Cell(page, tile, sz, idx) ==
    LET pos == Position(sz, idx)
        row_num == pos[1]
        col_num == pos[2]
        t1 == set_dimensions(tile, CellX(row_num, sz), CellY(col_num, sz), sz)
        tbp1 == (pos :> t1) @@ page.tiles_by_pos
        ob == IF ~tile.skip_in_header THEN observe_char(page.hdr, tile.C)
              ELSE [hdr |-> page.hdr, exc |-> "none", arg |-> ""]
        bd == maybe_draw_border(tbp1, t1, row_num, col_num)
        tbp2 == (pos :> bd.tile) @@ page.tiles_by_pos
        r == render(bd.tile)
    IN  IF ob.exc # "none"
        THEN [page |-> [page EXCEPT !.tiles_by_pos = tbp1, !.hdr = ob.hdr],
              exc |-> ob.exc, arg |-> ob.arg]
        ELSE IF bd.exc # "none"
        THEN [page |-> [page EXCEPT !.tiles_by_pos = tbp2, !.hdr = ob.hdr],
              exc |-> bd.exc, arg |-> bd.arg]
        ELSE IF r.exc # "none"
        THEN [page |-> [page EXCEPT !.tiles_by_pos = tbp2, !.hdr = ob.hdr],
              exc |-> r.exc, arg |-> r.arg]
        ELSE [page |-> [page EXCEPT !.tiles_by_pos = tbp2, !.hdr = ob.hdr,
                                    !.f_tiles = Append(@, r.svg)],
              exc |-> "none", arg |-> ""]

\* the finally clause of Page.prepare
Finalize(page) ==
    [page EXCEPT !.f_text = get_text(page.hdr, page.page_drawn),
                 !.closed = TRUE]

----------------------------------------------------------------------------
(* draw and gen_strokes *)

NoResponse == [status |-> 0, body |-> "none", arg |-> "", npages |-> 0]

\* OnException without the except clause for KeyError
OnExceptionUncaught(exc, arg) ==
    [status |-> 500, body |-> exc, arg |-> arg, npages |-> 0]

\* what gen_strokes answers when draw raises exc: it catches KeyError, any
\* other exception leaves the view and the framework answers 500
OnException(exc, arg) ==
    IF exc = "KeyError"
    THEN [status |-> 400, body |-> "unknown_character", arg |-> arg,
          npages |-> 0]
    ELSE [status |-> 500, body |-> exc, arg |-> arg, npages |-> 0]

\* the dispatch of draw on action; ok tells whether the external PDF
\* renderer answered
Dispatch(a, ps, ok) ==
    CASE a = "generate" ->
            IF ok THEN [status |-> 200, body |-> "pdf", arg |-> "",
                        npages |-> Len(ps)]
            ELSE OnException("RendererError", "")
      [] a = "preview_small" ->
            [status |-> 200, body |-> "html", arg |-> "", npages |-> Len(ps)]
      [] a = "preview_large" ->
            [status |-> 200, body |-> "html_img", arg |-> "",
             npages |-> Len(ps)]
      [] OTHER ->
            [status |-> 400, body |-> "invalid_action", arg |-> a,
             npages |-> 0]

----------------------------------------------------------------------------
(* The requests explored *)

SeqsOver(S, lo, hi) == UNION {[1..k -> S] : k \in lo..hi}

LongInputs ==
    {cs \in SeqsOver(LongChars, ShortLen + 1, MaxLen) :
        \A k \in 1..(Len(cs) - 1) : cs[k] = cs[1]}

\* the pairs (chars, nr) explored
Inputs ==
    {<<cs, R>> \in SeqsOver(Chars, 0, ShortLen) \X (-1..MaxRepeats) :
        Len(cs) * R * 2 <= MaxRecall}
    \cup (LongInputs \X {0, 1})

Init ==
    /\ has_chars \in BOOLEAN
    /\ \E in \in (IF has_chars THEN Inputs ELSE {<<(<<>>), 1>>}) :
          /\ chars = in[1]
          /\ num_repeats = in[2]
    /\ size \in (IF has_chars THEN TileSizes ELSE {75})
    /\ action = "unread"
    /\ pc = "gen_strokes"
    /\ gen = GenStart
    /\ out = <<>>
    /\ pages = <<>>
    /\ page_drawn = 0
    /\ i = 0
    /\ resp = NoResponse

----------------------------------------------------------------------------
(* Actions *)

\* gen_strokes up to the call of draw, and draw up to the loop of gen_svgs
GenStrokes ==
    /\ pc = "gen_strokes"
    /\ IF ~has_chars
       THEN /\ resp' = [status |-> 400, body |-> "missing_chars",
                        arg |-> "", npages |-> 0]
            /\ action' = action
            /\ pc' = "done"
       ELSE /\ resp' = resp
            /\ action' \in Actions
            /\ pc' = "gen_svgs"
    /\ UNCHANGED <<has_chars, chars, size, num_repeats, gen, out, pages,
                   page_drawn, i>>

EmptyPages == Cardinality({k \in 1..Len(pages) : pages[k].tiles_by_pos = <<>>})

\* gen_svgs: one turn of the while loop up to the call of write_tiles
NewPage ==
    /\ pc = "gen_svgs"
    /\ EmptyPages < MaxEmptyPages
    /\ page_drawn' = page_drawn + 1
    /\ pages' = Append(pages, NewPageObject(page_drawn + 1))
    /\ i' = 0
    /\ pc' = "write_tiles"
    /\ UNCHANGED <<has_chars, chars, size, num_repeats, action, gen, out, resp>>

\* the current page with f replaced
SetLast(ps, page) == [ps EXCEPT ![Len(ps)] = page]

\* gen_positions divides by a tile size of zero
ZeroDivision ==
    /\ pc = "write_tiles"
    /\ size = 0
    /\ pages' = SetLast(pages, Finalize(pages[Len(pages)]))
    /\ resp' = OnException("ZeroDivisionError", "")
    /\ pc' = "done"
    /\ UNCHANGED <<has_chars, chars, size, num_repeats, action, gen, out,
                   page_drawn, i>>

\* gen_positions is exhausted: write_tiles returns, prepare finalizes the
\* page and gen_svgs goes round its loop
PageFull ==
    /\ pc = "write_tiles"
    /\ size # 0
    /\ ~HasPosition(size, i)
    /\ pages' = SetLast(pages, Finalize(pages[Len(pages)]))
    /\ pc' = "gen_svgs"
    /\ UNCHANGED <<has_chars, chars, size, num_repeats, action, gen, out,
                   page_drawn, i, resp>>

\* one turn of the loop of write_tiles in which the generator yields a tile
PlaceTile ==
    /\ pc = "write_tiles"
    /\ size # 0
    /\ HasPosition(size, i)
    /\ \E o \in GenNext(gen, chars, num_repeats) :
        /\ o.kind = "tile"
        /\ gen' = o.g
        /\ out' = Append(out, o.tile)
        /\ LET c == Cell(pages[Len(pages)], o.tile, size, i)
           IN  IF c.exc = "none"
               THEN /\ pages' = SetLast(pages, c.page)
                    /\ i' = i + 1
                    /\ pc' = "write_tiles"
                    /\ resp' = resp
               ELSE /\ pages' = SetLast(pages, Finalize(c.page))
                    /\ i' = i
                    /\ pc' = "done"
                    /\ resp' = OnException(c.exc, c.arg)
    /\ UNCHANGED <<has_chars, chars, size, num_repeats, action, page_drawn>>

\* the generator is exhausted and ends with StopIteration (the behaviour of
\* next(iterable) inside grouper before PEP 479): prepare finalizes the page
\* and gen_svgs leaves its loop
StreamEnd ==
    /\ pc = "write_tiles"
    /\ size # 0
    /\ HasPosition(size, i)
    /\ \E o \in GenNext(gen, chars, num_repeats) :
        /\ o.kind = "exhausted"
        /\ gen' = o.g
    /\ pages' = SetLast(pages, Finalize(pages[Len(pages)]))
    /\ pc' = "draw"
    /\ UNCHANGED <<has_chars, chars, size, num_repeats, action, out,
                   page_drawn, i, resp>>

\* the same under PEP 479 (Python 3.7 and later): the StopIteration raised
\* inside grouper becomes a RuntimeError, which gen_svgs does not catch
StreamEndRuntimeError ==
    /\ pc = "write_tiles"
    /\ size # 0
    /\ HasPosition(size, i)
    /\ \E o \in GenNext(gen, chars, num_repeats) :
        /\ o.kind = "exhausted"
        /\ gen' = o.g
    /\ pages' = SetLast(pages, Finalize(pages[Len(pages)]))
    /\ resp' = OnException("RuntimeError", "generator raised StopIteration")
    /\ pc' = "done"
    /\ UNCHANGED <<has_chars, chars, size, num_repeats, action, out,
                   page_drawn, i>>

\* STROKES_DB[C] raises KeyError inside the generator
UnknownCharacter ==
    /\ pc = "write_tiles"
    /\ size # 0
    /\ HasPosition(size, i)
    /\ \E o \in GenNext(gen, chars, num_repeats) :
        /\ o.kind = "KeyError"
        /\ gen' = o.g
        /\ resp' = OnException("KeyError", o.g.err)
    /\ pages' = SetLast(pages, Finalize(pages[Len(pages)]))
    /\ pc' = "done"
    /\ UNCHANGED <<has_chars, chars, size, num_repeats, action, out,
                   page_drawn, i>>

\* draw after gen_svgs returned: the dispatch on action
Respond ==
    /\ pc = "draw"
    /\ \E ok \in BOOLEAN : resp' = Dispatch(action, pages, ok)
    /\ pc' = "done"
    /\ UNCHANGED <<has_chars, chars, size, num_repeats, action, gen, out,
                   pages, page_drawn, i>>

Next ==
    \/ GenStrokes
    \/ NewPage
    \/ ZeroDivision
    \/ PageFull
    \/ PlaceTile
    \/ StreamEnd
    \/ StreamEndRuntimeError
    \/ UnknownCharacter
    \/ Respond

Spec == Init /\ [][Next]_vars

----------------------------------------------------------------------------
(* Vocabulary of the properties *)

\* the indices of out whose tile satisfies P
OutIdx(P(_)) == {m \in 1..Len(out) : P(out[m])}

\* the Groups of the input: successive chunks of ChunkSize characters
NumGroups == (Len(chars) + ChunkSize(num_repeats) - 1) \div ChunkSize(num_repeats)
GroupSize(g) == Min(ChunkSize(num_repeats), Len(chars) - ChunkSize(num_repeats) * (g - 1))

RECURSIVE SumStrokes(_)
SumStrokes(cs) ==
    IF cs = <<>> THEN 0 ELSE Len(STROKES_DB[Head(cs)]) + SumStrokes(Tail(cs))

AllKnown(cs) == \A k \in 1..Len(cs) : cs[k] \in DOMAIN STROKES_DB

\* the pairs (character occurrence, stroke index) in character-then-stroke order
RECURSIVE StrokeOrder(_, _, _)
StrokeOrder(cs, k, n) ==
    IF k > Len(cs) THEN <<>>
    ELSE IF n >= Len(STROKES_DB[cs[k]]) THEN StrokeOrder(cs, k + 1, 0)
    ELSE <<(<<k, n>>)>> \o StrokeOrder(cs, k, n + 1)

\* the cells of a page in reading order: row after row, left to right
RECURSIVE ReadingOrder(_)
ReadingOrder(S) ==
    IF S = {} THEN <<>>
    ELSE LET first == CHOOSE p \in S : \A q \in S :
                          p[2] < q[2] \/ (p[2] = q[2] /\ p[1] <= q[1])
         IN  <<first>> \o ReadingOrder(S \ {first})

\* the tiles of a page in reading order
PageTiles(page) ==
    LET order == ReadingOrder(DOMAIN page.tiles_by_pos)
    IN  [k \in 1..Len(order) |-> page.tiles_by_pos[order[k]]]

RECURSIVE AllPageTiles(_)
AllPageTiles(ps) ==
    IF ps = <<>> THEN <<>> ELSE PageTiles(Head(ps)) \o AllPageTiles(Tail(ps))

RECURSIVE TileCount(_)
TileCount(ps) ==
    IF ps = <<>> THEN 0
    ELSE Cardinality(DOMAIN Head(ps).tiles_by_pos) + TileCount(Tail(ps))

\* a placed tile as the sequencer yielded it
AsYielded(t) ==
    [t EXCEPT !.x = None, !.y = None, !.size = None,
              !.leftline_width = LINE_THIN, !.topline_width = LINE_THIN]

\* the sequencer has run to its end
Exhausted == gen.loc = "exhausted"

\* every cell of the page went through the whole loop body of write_tiles
Complete(page) == Len(page.f_tiles) = Cardinality(DOMAIN page.tiles_by_pos)

----------------------------------------------------------------------------
(* C1 *)

\* C1: for repeats R > 0, once the sequencer has run to its end it has
\* yielded, for every character occurrence with S strokes, exactly S*(3*R)
\* phase tiles and, for every group G, exactly |G|*R*2 recall tiles, and
\* nothing else: the length of its output is the sum of the two.
C1_TileCounts ==
    (num_repeats > 0 /\ Exhausted) =>
        /\ \A k \in 1..Len(chars) :
              Cardinality(OutIdx(LAMBDA t : ~t.skip_in_header /\ t.occ = k))
                  = Len(STROKES_DB[chars[k]]) * (3 * num_repeats)
        /\ \A g \in 1..NumGroups :
              Cardinality(OutIdx(LAMBDA t : t.skip_in_header /\ t.gid = g))
                  = GroupSize(g) * num_repeats * 2
        /\ \A m \in 1..Len(out) :
              IF out[m].skip_in_header THEN out[m].gid \in 1..NumGroups
              ELSE out[m].occ \in 1..Len(chars)
        /\ Len(out) = SumStrokes(chars) * (3 * num_repeats)
                        + Len(chars) * num_repeats * 2

\* a run with repeats > 0 over two groups has reached the end of the stream
C1_Witness ==
    /\ num_repeats > 0
    /\ Exhausted
    /\ NumGroups = 2
    /\ \E m \in 1..Len(out) : out[m].skip_in_header /\ out[m].gid = 2

----------------------------------------------------------------------------
(* C2 *)

\* C2: for repeats = 0, once the sequencer has run to its end its output is
\* one tile per stroke of every input character, in character-then-stroke
\* order, none of them a recall (header-excluded) tile; their number is the
\* sum of the stroke counts of the input characters.
C2_NoRepeats ==
    (num_repeats = 0 /\ Exhausted) =>
        /\ [m \in 1..Len(out) |-> <<out[m].occ, out[m].img_num>>]
              = StrokeOrder(chars, 1, 0)
        /\ \A m \in 1..Len(out) :
              /\ ~out[m].skip_in_header
              /\ out[m].C = chars[out[m].occ]
        /\ Len(out) = SumStrokes(chars)

\* a run with repeats = 0 over several characters, one of them of two
\* strokes, has reached the end of the stream
C2_Witness ==
    /\ num_repeats = 0
    /\ Exhausted
    /\ Len(chars) >= 2
    /\ Len(out) > Len(chars)

----------------------------------------------------------------------------
(* C3 *)

\* the first tile of out made for the same character occurrence as out[m]
FirstOfOcc(m) == \A k \in 1..(m - 1) : out[k].occ # out[m].occ

\* the first repetition of the isolated-stroke phase of stroke 0
FirstIsolated(m) ==
    /\ ~out[m].skip_in_header
    /\ FirstOfOcc(m)
    /\ out[m].img_num = 0
    /\ out[m].skip_strokes = 0
    /\ out[m].stop_at = 1

\* C3 as stated: for repeats > 0 the pronunciation flag is true for the
\* first repetition of the isolated-stroke phase of stroke 0 and false for
\* every other tile, recall tiles included.
C3_Original ==
    num_repeats > 0 =>
        \A m \in 1..Len(out) : out[m].add_pinyin <=> FirstIsolated(m)

\* C3 amended: for repeats > 0, among the phase tiles of a character
\* occurrence the pronunciation flag is true for exactly one tile, the first
\* repetition of the isolated-stroke phase of stroke 0; every recall tile
\* has the pronunciation flag true.
C3_Pinyin ==
    num_repeats > 0 =>
        \A m \in 1..Len(out) :
            out[m].add_pinyin <=> (out[m].skip_in_header \/ FirstIsolated(m))

\* with two repetitions, a character's second isolated-stroke tile and a
\* recall tile have been yielded
C3_Witness ==
    /\ num_repeats = 2
    /\ \E m \in 1..Len(out) : out[m].skip_in_header /\ out[m].add_pinyin
    /\ \E m \in 1..Len(out) :
          /\ ~out[m].skip_in_header /\ out[m].img_num = 0
          /\ out[m].stop_at = 1 /\ ~out[m].add_pinyin

----------------------------------------------------------------------------
(* C4 *)

\* C4: the packer loses, duplicates and reorders nothing: at every moment
\* the tiles of the pages, page after page in reading order, are the tiles
\* the sequencer has yielded so far, each carrying the position of its cell;
\* the tile counts of the pages sum to the length of the sequencer's output;
\* and when gen_svgs returns the sequencer has run to its end.
C4_NothingLost ==
    /\ LET placed == AllPageTiles(pages)
       IN  [m \in 1..Len(placed) |-> AsYielded(placed[m])] = out
    /\ TileCount(pages) = Len(out)
    /\ \A k \in 1..Len(pages) : \A pos \in DOMAIN pages[k].tiles_by_pos :
          /\ pages[k].tiles_by_pos[pos].x = CellX(pos[1], size)
          /\ pages[k].tiles_by_pos[pos].y = CellY(pos[2], size)
          /\ pages[k].tiles_by_pos[pos].size = size
    /\ (pc = "draw" \/ resp.status = 200) => Exhausted

\* a document of at least three pages was returned
C4_Witness ==
    /\ resp.status = 200
    /\ Len(pages) >= 3
    /\ Len(out) > 4
    /\ Cardinality(DOMAIN pages[2].tiles_by_pos) > 1

----------------------------------------------------------------------------
(* C5 *)

\* C5: on every page no two tiles share a cell (no tile was put on a cell
\* that was taken, so the cells of the pages are as many as the tiles
\* pulled, and two tiles of a page differ in x or y), and every cell
\* (col,row) satisfies 0 <= col < floor(200/tileSize) and
\* 0 <= row < floor(300/tileSize) - 1, the tile's square lying inside the
\* 200 x 300 page.
C5_Grid ==
    /\ TileCount(pages) = Len(out)
    /\ \A k \in 1..Len(pages) :
          LET tbp == pages[k].tiles_by_pos
          IN  /\ \A p \in DOMAIN tbp, q \in DOMAIN tbp :
                    p # q => <<tbp[p].x, tbp[p].y>> # <<tbp[q].x, tbp[q].y>>
              /\ \A p \in DOMAIN tbp :
                    /\ 0 <= p[1] /\ p[1] < num_per_row(size)
                    /\ 0 <= p[2] /\ p[2] < num_rows(size) - 1
                    /\ 0 <= tbp[p].x /\ tbp[p].x + size <= PAGE_SIZE[1]
                    /\ 0 <= tbp[p].y /\ tbp[p].y + size <= PAGE_SIZE[2]

\* a page of two rows and two columns is full and a second page has a tile
C5_Witness ==
    /\ size = 75
    /\ Len(pages) >= 2
    /\ Cardinality(DOMAIN pages[1].tiles_by_pos) = 4
    /\ pages[2].tiles_by_pos # <<>>

----------------------------------------------------------------------------
(* C6 *)

\* the tile of the page on the cell at pos, the cell exists
Neighbour(page, pos) == page.tiles_by_pos[pos]

\* C6 as stated: after packing, a tile's left (top) border is thick (30
\* instead of 10) exactly if the tile has an immediate left (top) neighbour
\* on its page and that neighbour was made for another Group, another chunk
\* of the input partition, than the tile.
C6_Original ==
    \A k \in 1..Len(pages) : Complete(pages[k]) =>
        \A pos \in DOMAIN pages[k].tiles_by_pos :
            LET t == pages[k].tiles_by_pos[pos]
                left == <<pos[1] - 1, pos[2]>>
                top == <<pos[1], pos[2] - 1>>
            IN  /\ t.leftline_width \in {LINE_THIN, LINE_THICK}
                /\ t.topline_width \in {LINE_THIN, LINE_THICK}
                /\ t.leftline_width = LINE_THICK <=>
                      /\ pos[1] > 0
                      /\ left \in DOMAIN pages[k].tiles_by_pos
                      /\ Neighbour(pages[k], left).gid # t.gid
                /\ t.topline_width = LINE_THICK <=>
                      /\ pos[2] > 0
                      /\ top \in DOMAIN pages[k].tiles_by_pos
                      /\ Neighbour(pages[k], top).gid # t.gid

\* what the code does instead: the border is thick exactly if the neighbour's
\* chunk list differs in content from the tile's
BordersByContent ==
    \A k \in 1..Len(pages) : Complete(pages[k]) =>
        \A pos \in DOMAIN pages[k].tiles_by_pos :
            LET t == pages[k].tiles_by_pos[pos]
                left == <<pos[1] - 1, pos[2]>>
                top == <<pos[1], pos[2] - 1>>
            IN  /\ t.leftline_width = LINE_THICK <=>
                      /\ pos[1] > 0
                      /\ left \in DOMAIN pages[k].tiles_by_pos
                      /\ Neighbour(pages[k], left).chunk # t.chunk
                /\ t.topline_width = LINE_THICK <=>
                      /\ pos[2] > 0
                      /\ top \in DOMAIN pages[k].tiles_by_pos
                      /\ Neighbour(pages[k], top).chunk # t.chunk

----------------------------------------------------------------------------
(* C7 *)

IsEntry(piece) == piece[1] = "entry"

\* the characters the header text lists, in order
HeaderChars(header) ==
    LET entries == SelectSeq(header, IsEntry)
    IN  [k \in 1..Len(entries) |-> entries[k][2]]

\* s without the repetitions of its elements
RECURSIVE FirstSeen(_)
FirstSeen(s) ==
    IF s = <<>> THEN <<>>
    ELSE LET front == FirstSeen(SubSeq(s, 1, Len(s) - 1))
             last == s[Len(s)]
         IN  IF \E k \in 1..Len(front) : front[k] = last THEN front
             ELSE Append(front, last)

NotExcluded(t) == ~t.skip_in_header

\* the characters of the tiles of the page that are not header-excluded, in
\* the order of the tiles
ShownChars(page) ==
    LET ts == SelectSeq(PageTiles(page), NotExcluded)
    IN  [k \in 1..Len(ts) |-> ts[k].C]

\* C7: on every page the header lists each distinct character that has a
\* tile on the page that is not header-excluded exactly once, in the order
\* of first appearance, and no other character (none that is on the page in
\* recall tiles only); it has at most one line break, and the text before
\* the line break is longer than 75 and is followed by a character.
C7_Header ==
    \A k \in 1..Len(pages) : Complete(pages[k]) =>
        LET header == pages[k].hdr.header
        IN  /\ HeaderChars(header) = FirstSeen(ShownChars(pages[k]))
            /\ Cardinality({q \in 1..Len(header) : header[q] = TSPAN}) <= 1
            /\ \A q \in 1..Len(header) : header[q] = TSPAN =>
                  /\ HeaderLen(SubSeq(header, 1, q - 1)) > HEADER_WRAP
                  /\ q < Len(header)
                  /\ IsEntry(header[q + 1])
            /\ pages[k].closed =>
                  pages[k].f_text = <<pages[k].page_drawn, header>>

\* a page whose header was broken and got a further character afterwards,
\* and which shows one of its characters on several tiles
C7_Witness ==
    \E k \in 1..Len(pages) :
        /\ Complete(pages[k])
        /\ pages[k].closed
        /\ HasTspan(pages[k].hdr.header)
        /\ Len(HeaderChars(pages[k].hdr.header)) = 3
        /\ Len(ShownChars(pages[k])) > 3

----------------------------------------------------------------------------
(* C8 *)

\* the pages that were left because gen_positions had no further cell
FilledPages == 1..(Len(pages) - 1)

\* C8 as stated: a page has floor(300/tileSize) - 1 usable rows of
\* floor(200/tileSize) cells, so a page whose grid was filled (here: one
\* that holds a tile) holds
\* floor(200/tileSize) * (floor(300/tileSize) - 1) tiles.
C8_Original ==
    size > 0 =>
        \A k \in FilledPages :
            pages[k].tiles_by_pos # <<>> =>
                Cardinality(DOMAIN pages[k].tiles_by_pos)
                    = num_per_row(size) * (num_rows(size) - 1)

\* the number of cells of a page of usable rows floor(300/tileSize) - 2
Capacity(sz) ==
    IF num_per_row(sz) > 0 /\ num_rows(sz) > 2
    THEN num_per_row(sz) * (num_rows(sz) - 2) ELSE 0

\* C8 amended: a page has floor(300/tileSize) - 2 usable rows of
\* floor(200/tileSize) cells (none if one of the two is not positive), so a
\* page whose grid was filled holds
\* floor(200/tileSize) * (floor(300/tileSize) - 2) tiles, and no page holds
\* more.
C8_Capacity ==
    size # 0 =>
        /\ \A k \in FilledPages :
              Cardinality(DOMAIN pages[k].tiles_by_pos) = Capacity(size)
        /\ \A k \in 1..Len(pages) :
              /\ Cardinality(DOMAIN pages[k].tiles_by_pos) <= Capacity(size)
              /\ \A pos \in DOMAIN pages[k].tiles_by_pos :
                    pos[2] < num_rows(size) - 2

\* two pages of one row of two cells are filled and a third one is begun
C8_Witness ==
    /\ size = 100
    /\ Len(pages) = 3
    /\ Cardinality(DOMAIN pages[1].tiles_by_pos) = 2
    /\ Cardinality(DOMAIN pages[2].tiles_by_pos) = 2
    /\ Len(out) = 5

----------------------------------------------------------------------------
(* C9 *)

\* C9 as stated: every tile satisfies skip_strokes <= stop_at <= number of
\* strokes of its character.
C9_Original ==
    \A m \in 1..Len(out) :
        /\ out[m].skip_strokes <= out[m].stop_at
        /\ out[m].stop_at <= Len(STROKES_DB[out[m].C])

\* C9 amended: every tile of a character of fewer than 99 strokes satisfies
\* skip_strokes <= stop_at, and stop_at is at most the number of strokes of
\* the character unless it is 99, the value that stands for all strokes on
\* the whole-character and in-context tiles.
C9_StrokeRange ==
    \A m \in 1..Len(out) :
        /\ 0 <= out[m].skip_strokes
        /\ out[m].skip_strokes <= out[m].stop_at
        /\ \/ out[m].stop_at <= Len(STROKES_DB[out[m].C])
           \/ out[m].stop_at = STOP_ALL

\* the isolated-stroke tile and the in-context tile of the last stroke of a
\* character of two strokes, and a recall tile, have been yielded
C9_Witness ==
    /\ \E m \in 1..Len(out) :
          /\ out[m].C = "b" /\ out[m].img_num = 1
          /\ out[m].skip_strokes = 0 /\ out[m].stop_at = 2
    /\ \E m \in 1..Len(out) :
          /\ out[m].C = "b" /\ out[m].img_num = 1
          /\ out[m].skip_strokes = 2 /\ out[m].stop_at = STOP_ALL
    /\ \E m \in 1..Len(out) : out[m].skip_in_header

----------------------------------------------------------------------------
(* C10 *)

InInput(c) == \E k \in 1..Len(chars) : chars[k] = c

\* C10: when the sequencer comes to a character of the input that is absent
\* from the dataset, wherever it stands, the request ends with status 400,
\* names that character and returns no page, whatever pages were completed
\* before; a request for an input with such a character never returns a
\* document, and for a positive tile size whatever it returns is the 400
\* result naming a character of the input that a dataset lacks.
C10_UnknownCharacter ==
    /\ gen.loc = "keyerror" =>
          /\ pc = "done"
          /\ InInput(gen.err) /\ gen.err \notin DOMAIN STROKES_DB
          /\ resp = [status |-> 400, body |-> "unknown_character",
                     arg |-> gen.err, npages |-> 0]
    /\ (has_chars /\ ~AllKnown(chars)) =>
          /\ pc # "draw"
          /\ resp.status # 200
          /\ resp.npages = 0
    /\ (has_chars /\ ~AllKnown(chars) /\ size > 0 /\ pc = "done") =>
          /\ resp.status = 400
          /\ resp.body = "unknown_character"
          /\ InInput(resp.arg)
          /\ resp.arg \notin (DOMAIN STROKES_DB \cap DOMAIN PINYIN_DB)

\* the unknown character stood last in an input of three characters and was
\* reached on the second page, after the first page was completed
C10_Witness ==
    /\ Len(chars) = 3
    /\ chars[3] = "u"
    /\ gen.loc = "keyerror"
    /\ resp.status = 400
    /\ Len(pages) >= 2
    /\ pages[1].closed
    /\ pages[1].tiles_by_pos # <<>>

----------------------------------------------------------------------------
(* C11 *)

\* a tile size that is not positive or a repeat count that is negative
InvalidConfiguration == size <= 0 \/ num_repeats < 0

\* C11 as stated: a request with a non-positive tile size or a negative
\* repeat count never returns a document, and when it has ended it has ended
\* with a client error, no tile having been generated and no page created.
C11_Original ==
    (has_chars /\ InvalidConfiguration) =>
        /\ resp.status # 200
        /\ pc = "done" =>
              /\ resp.status = 400
              /\ out = <<>>
              /\ pages = <<>>

----------------------------------------------------------------------------
(* C12 *)

\* the selectors draw recognizes
KnownActions == {"generate", "preview_small", "preview_large"}

\* every character of the input has strokes and a pronunciation
AllDrawable(cs) ==
    \A k \in 1..Len(cs) : cs[k] \in DOMAIN STROKES_DB \cap DOMAIN PINYIN_DB

\* a request with characters, all of them known, a positive tile size and a
\* repeat count that is not negative
ValidRequest ==
    has_chars /\ AllDrawable(chars) /\ size > 0 /\ num_repeats >= 0

\* C12 as stated: a request that is valid but for its selector, which is
\* none of 'generate', 'preview_small' and 'preview_large', ends with the
\* client-error result of draw: status 400 (not 200, and no exception that
\* left draw), naming the selector and carrying no page.
C12_Original ==
    (ValidRequest /\ action \notin KnownActions /\ pc = "done") =>
        resp = [status |-> 400, body |-> "invalid_action", arg |-> action,
                npages |-> 0]

----------------------------------------------------------------------------
(* C13 *)

\* C13 as stated: for a positive tile size and the tiles of a valid request
\* for at least one character gen_svgs terminates.  A turn of
\* its loop is a function of the tile size and of the sequencer's control
\* point alone, so a turn that neither pulls a tile nor leaves the loop
\* changes nothing the next turn depends on and is repeated for ever, while
\* turns that pull a tile are bounded by the length of the finite tile
\* sequence: gen_svgs terminates exactly if every page after which the loop
\* went round again holds a tile.
C13_Original ==
    (ValidRequest /\ chars # <<>>) =>
        \A k \in FilledPages : pages[k].tiles_by_pos # <<>>

----------------------------------------------------------------------------
(* C14 *)

\* C14 as stated: when the sequencer of a valid request has run to its end
\* (after the recall batch of the last group, whatever the length of the
\* input) the tile stream has ended with the exhaustion signal and not with
\* an error: the packer has finalized the page it was on and has left its
\* loop, and the request has not failed with the RuntimeError of a broken
\* generator.
C14_Original ==
    (ValidRequest /\ Exhausted) =>
        /\ pc \in {"draw", "done"}
        /\ pages[Len(pages)].closed
        /\ resp.body # "RuntimeError"

----------------------------------------------------------------------------
(* C15 *)

\* C15 as stated: when gen_svgs returns for a tile sequence that is not
\* empty, every page of its result holds a tile, the last one included.
C15_Original ==
    (pc = "draw" /\ out # <<>>) =>
        \A k \in 1..Len(pages) : pages[k].tiles_by_pos # <<>>

----------------------------------------------------------------------------
(* C16 *)

\* what identifies a phase tile: the character occurrence, the character,
\* the focus index and the range of strokes
Signature(t) == <<t.occ, t.C, t.img_num, t.skip_strokes, t.stop_at>>

\* R copies of x
Copies(x, R) == [q \in 1..R |-> x]

\* the phase tiles of the characters cs[k..] from stroke n of cs[k] on, up to
\* the first character that has no strokes entry: for every character and
\* every stroke index in ascending order R isolated-stroke, R
\* whole-character and R in-context signatures
RECURSIVE PhaseOrder(_, _, _, _)
PhaseOrder(cs, k, n, R) ==
    IF k > Len(cs) \/ cs[k] \notin DOMAIN STROKES_DB THEN <<>>
    ELSE IF n >= Len(STROKES_DB[cs[k]]) THEN PhaseOrder(cs, k + 1, 0, R)
    ELSE Copies(<<k, cs[k], n, 0, n + 1>>, R)
            \o Copies(<<k, cs[k], n, 0, STOP_ALL>>, R)
            \o Copies(<<k, cs[k], n, n + 1, STOP_ALL>>, R)
            \o PhaseOrder(cs, k, n + 1, R)

\* the signatures of the phase tiles yielded so far, in order
PhasesOut ==
    LET ts == SelectSeq(out, NotExcluded)
    IN  [m \in 1..Len(ts) |-> Signature(ts[m])]

\* C16: for repeats = R > 0 the phase tiles the sequencer yields are, in
\* this order, for each character and each stroke index n ascending, R
\* isolated-stroke tiles (skip 0, stop n+1), R whole-character tiles (skip 0,
\* stop all), R in-context tiles (skip n+1, stop all), all with focus n: at
\* every moment the phase tiles yielded are a prefix of that sequence, and
\* all of it once the sequencer has run to its end.
C16_PhaseOrder ==
    num_repeats > 0 =>
        LET expected == PhaseOrder(chars, 1, 0, num_repeats)
        IN  /\ Len(PhasesOut) <= Len(expected)
            /\ PhasesOut = SubSeq(expected, 1, Len(PhasesOut))
            /\ Exhausted => PhasesOut = expected

\* with two repetitions the three phases of both strokes of a character
\* were yielded, and with one repetition those of two characters
C16_Witness ==
    /\ num_repeats > 0
    /\ Exhausted
    /\ \/ num_repeats = 2 /\ chars = <<"b">>
       \/ num_repeats = 1 /\ chars = <<"b", "a">>
    /\ Len(PhasesOut) >= 9

----------------------------------------------------------------------------
(* C17 *)

\* the size of a Group: 4 characters, 1 when repeats = 0
GroupLen == IF num_repeats = 0 THEN 1 ELSE 4

\* the positions in the input of the characters of the g-th Group
GroupRange(g) == ((g - 1) * GroupLen + 1)..Min(g * GroupLen, Len(chars))

\* the characters of the g-th Group
GroupOf(g) == SubSeq(chars, (g - 1) * GroupLen + 1, Min(g * GroupLen, Len(chars)))

\* the sequencer has left Group g behind
GroupOver(g) == Exhausted \/ \E m \in 1..Len(out) : out[m].gid > g

\* C17: the groups partition the input in order into chunks of 4 characters
\* (1 when repeats = 0), the last possibly smaller: the g-th chunk that
\* reaches a tile is the g-th such slice of the input, and a phase tile is
\* made for a character occurrence of its group.  The tiles come group after
\* group, within a group the recall tiles after all its phase tiles.  For
\* repeats = R > 0, when the first recall tile of a group is yielded all
\* phase tiles of the group have been, and once the group is left behind
\* its recall tiles are, for every character, 2*R times as many as the
\* character's occurrences in the group; every recall tile has the
\* header-exclusion flag set and an empty stroke list.
C17_Groups ==
    /\ \A m \in 1..Len(out) :
          /\ out[m].gid >= 1
          /\ GroupRange(out[m].gid) # {}
          /\ out[m].chunk = GroupOf(out[m].gid)
          /\ IF out[m].skip_in_header
             THEN /\ num_repeats > 0
                  /\ out[m].strokes = <<>>
                  /\ Count(out[m].chunk, out[m].C) > 0
             ELSE /\ out[m].occ \in GroupRange(out[m].gid)
                  /\ out[m].C = chars[out[m].occ]
    /\ \A m \in 1..(Len(out) - 1) :
          /\ out[m].gid <= out[m + 1].gid
          /\ (out[m].gid = out[m + 1].gid /\ out[m].skip_in_header)
                => out[m + 1].skip_in_header
    /\ \A g \in 1..Len(chars) :
          /\ (\E m \in 1..Len(out) : out[m].skip_in_header /\ out[m].gid = g)
                => Cardinality(OutIdx(LAMBDA t : ~t.skip_in_header /\ t.gid = g))
                      = SumStrokes(GroupOf(g)) * (3 * num_repeats)
          /\ (num_repeats > 0 /\ GroupRange(g) # {} /\ GroupOver(g))
                => \A k \in GroupRange(g) :
                      Cardinality(OutIdx(LAMBDA t : /\ t.skip_in_header
                                                    /\ t.gid = g
                                                    /\ t.C = chars[k]))
                          = Count(GroupOf(g), chars[k]) * (2 * num_repeats)

\* an input of five characters, two of them distinct, with one repetition:
\* the recall tiles of the first group, of four characters, were followed by
\* a phase tile and a recall tile of the second group, of one character
C17_Witness ==
    /\ num_repeats = 1
    /\ Len(chars) = 5
    /\ chars[1] # chars[5]
    /\ Exhausted
    /\ \E m \in 1..(Len(out) - 1) :
          /\ out[m].skip_in_header /\ out[m].gid = 1
          /\ ~out[m + 1].skip_in_header /\ out[m + 1].gid = 2
    /\ out[Len(out)].skip_in_header /\ out[Len(out)].gid = 2

----------------------------------------------------------------------------
(* C18 *)

\* C18: tiles fill each page row-major without gaps.  With
\* W = floor(200/tileSize) and c the capacity of a page (for a positive tile
\* size whose grid has a cell, c > 0), the k-th
\* tile of the stream (counted from 0) lies on page k div c (counted from
\* 0) at cell index i = k mod c, that is at col = i mod W and
\* row = i div W, with pixel offset x = col*tileSize and
\* y = (row+1)*tileSize; every page except the last holds c tiles.
C18_RowMajor ==
    (size > 0 /\ Capacity(size) > 0) =>
        LET W == 200 \div size
            c == Capacity(size)
        IN  /\ \A k \in 0..(Len(out) - 1) :
                  LET idx == k % c
                      col == idx % W
                      row == idx \div W
                      p == (k \div c) + 1
                  IN  /\ p <= Len(pages)
                      /\ <<col, row>> \in DOMAIN pages[p].tiles_by_pos
                      /\ AsYielded(pages[p].tiles_by_pos[<<col, row>>])
                            = out[k + 1]
                      /\ pages[p].tiles_by_pos[<<col, row>>].x = col * size
                      /\ pages[p].tiles_by_pos[<<col, row>>].y
                            = (row + 1) * size
            /\ \A p \in 1..(Len(pages) - 1) :
                  Cardinality(DOMAIN pages[p].tiles_by_pos) = c
            /\ TileCount(pages) = Len(out)

\* on pages of two rows of two cells the eighth tile of the stream lies in
\* the second row and the second column of the second page
C18_Witness ==
    /\ size = 75
    /\ Len(out) = 8
    /\ Len(pages) = 2
    /\ <<1, 1>> \in DOMAIN pages[2].tiles_by_pos
    /\ pages[2].tiles_by_pos[<<1, 1>>].x = 75
    /\ pages[2].tiles_by_pos[<<1, 1>>].y = 150

----------------------------------------------------------------------------
(* C19 *)

\* one path for each stroke index n of the tile's stroke list with
\* skip <= n < stop, in ascending order, of width 20 if n <= focus index and
\* 10 otherwise
ExpectedPaths(t) ==
    LET lo == t.skip_strokes
        hi == Min(t.stop_at, Len(t.strokes))
    IN  [q \in 1..(IF hi > lo THEN hi - lo ELSE 0) |->
            <<lo + q - 1, IF lo + q - 1 <= t.img_num THEN 20 ELSE 10>>]

\* C19: the markup Tile.render wrote for a tile of a page has exactly one
\* path for each stroke index n of the tile's stroke list with
\* skip <= n < stop, in ascending order, with stroke-width 20 if
\* n <= focus index and 10 otherwise, at the tile's position; render raises
\* for a tile whose position was never assigned (a tile as the sequencer
\* yields it), and never raises that error for a tile the packer placed,
\* the tiles of column 0 (x = 0) included.
C19_Render ==
    /\ \A k \in 1..Len(pages) :
          LET ts == PageTiles(pages[k])
          IN  /\ Len(pages[k].f_tiles) <= Len(ts)
              /\ \A m \in 1..Len(pages[k].f_tiles) :
                    /\ pages[k].f_tiles[m].paths = ExpectedPaths(ts[m])
                    /\ pages[k].f_tiles[m].x = ts[m].x
                    /\ pages[k].f_tiles[m].y = ts[m].y
              /\ \A m \in 1..Len(ts) :
                    render(ts[m]).exc # "RuntimeError"
    /\ \A m \in 1..Len(out) :
          /\ render(out[m]).exc = "RuntimeError"
          /\ render(out[m]).svg = <<>>
    /\ resp.arg # "Call set_dimensions first!"

\* a page holds, rendered, a whole-character tile in column 0 whose second
\* stroke is past the focus, and an in-context tile
C19_Witness ==
    \E k \in 1..Len(pages) :
        /\ Complete(pages[k])
        /\ \E m \in 1..Len(pages[k].f_tiles) :
              /\ pages[k].f_tiles[m].x = 0
              /\ pages[k].f_tiles[m].paths = <<(<<0, 20>>), (<<1, 10>>)>>
        /\ \E m \in 1..Len(pages[k].f_tiles) :
              pages[k].f_tiles[m].paths = <<(<<1, 10>>)>>

====
